---- MODULE Spec2Model ----
(***************************************************************************)
(* Model of the hybrid search API of src/app/main.py: the /search handler  *)
(* with its three retrieval modes and the fallback score fusion, the       *)
(* direct /index handler and the background batch ingestion started by     *)
(* /scrape.  Scores are exact rationals <<numerator, denominator>>; the    *)
(* binary rounding of Python floats is not modelled.  Strings that the     *)
(* code inspects character by character (URLs) are sequences of one-       *)
(* character strings; page texts are run-length encoded.                   *)
(***************************************************************************)
EXTENDS Integers, Sequences, FiniteSets, TLC

VARIABLES
    model,           \* global `model`: TRUE once the embedder is loaded
    request,         \* the SearchRequest last handled by /search
    bm25_results,    \* what the lexical retriever answered for it
    vector_results,  \* what the vector retriever answered for it
    calls,           \* the external calls made for that request, in order
    response,        \* the HTTP response to that request
    index,           \* the documents held by the Solr collection
    pc,              \* per background task: the await it is suspended at
    urls,            \* per background task: the `urls` argument
    idx,             \* per background task: position of `url` in `urls`
    solr_doc,        \* per background task: the document about to be posted
    log,             \* per background task: its external calls and log lines
    index_response   \* the HTTP response to the last /index submission

searchVars == <<request, bm25_results, vector_results, calls, response>>
taskVars   == <<pc, urls, idx, solr_doc, log>>
directVars == <<index_response>>

----------------------------------------------------------------------------
(* Bounds and input domains                                                *)

MaxResults == 2           \* longest result list a retriever answers with
MaxUrls    == 3           \* longest `urls` list of a /scrape request

DocIds == {"A", "B", "C"}

Min(a, b) == IF a <= b THEN a ELSE b
Max(a, b) == IF a >= b THEN a ELSE b

----------------------------------------------------------------------------
(* Exact rational arithmetic standing for Python's float arithmetic        *)

RECURSIVE GCD(_, _)
GCD(a, b) == IF b = 0 THEN a ELSE GCD(b, a % b)

Abs(n) == IF n < 0 THEN -n ELSE n

Rat(n, d) ==
    LET g == GCD(Abs(n), d)
    IN  IF n = 0 THEN <<0, 1>> ELSE <<n \div g, d \div g>>

RatAdd(a, b) == Rat(a[1] * b[2] + b[1] * a[2], a[2] * b[2])
RatMul(a, b) == Rat(a[1] * b[1], a[2] * b[2])
RatDiv(a, b) == Rat(a[1] * b[2], a[2] * b[1])      \* b > 0
RatGt(a, b)  == a[1] * b[2] > b[1] * a[2]
RatGe(a, b)  == a[1] * b[2] >= b[1] * a[2]
RatZero      == <<0, 1>>

LexScores == {Rat(0, 1), Rat(5, 1), Rat(10, 1)}
VecScores == {Rat(0, 1), Rat(2, 10), Rat(9, 10)}

SearchTypes == {"bm25", "vector", "hybrid", "ltr"}
RowsValues  == {-1, 0, 1, 2, 10}
RerankValues == {-1, 1, 20}

Requests ==
    [search_type : SearchTypes, rows : RowsValues, rerank_docs : RerankValues]

----------------------------------------------------------------------------
(* The index answering a /select call: a failure, or at most `limit`       *)
(* documents with distinct ids, best score first.                          *)

IsRanked(s) ==
    /\ \A i, j \in 1..Len(s) : i # j => s[i].id # s[j].id
    /\ \A i \in 1..(Len(s) - 1) : RatGe(s[i].score, s[i + 1].score)

ResultLists(scores, limit) ==
    UNION { { s \in [1..n -> [id : DocIds, score : scores]] : IsRanked(s) }
            : n \in 0..Min(limit, MaxResults) }

SolrSelect(scores, limit) ==
    { [ok |-> FALSE, status |-> 0, docs |-> <<>>] } \cup
    { [ok |-> TRUE, status |-> 200, docs |-> s] : s \in ResultLists(scores, limit) }

NotCalled == [ok |-> FALSE, status |-> -1, docs |-> <<>>]

----------------------------------------------------------------------------
(* /search: retrieval modes and the fallback fusion                        *)

\* A coroutine's outcome: the external calls it made, whether it raised
\* (exc_status is the HTTPException status, 0 for any other exception) and
\* the list it returned.
Returned(cs, docs) ==
    [calls |-> cs, raised |-> FALSE, exc_status |-> 0, results |-> docs]
Raised(cs, st) ==
    [calls |-> cs, raised |-> TRUE, exc_status |-> st, results |-> <<>>]

bm25_search(solr) ==
    IF solr.ok THEN Returned(<<"bm25_select">>, solr.docs)
               ELSE Raised(<<"bm25_select">>, 0)

vector_search(solr) ==
    IF ~model THEN Raised(<<>>, 503)
    ELSE IF solr.ok THEN Returned(<<"encode", "knn_select">>, solr.docs)
    ELSE Raised(<<"encode", "knn_select">>, 0)

RECURSIVE MaxScoreFrom(_, _)
MaxScoreFrom(docs, k) ==
    IF k = Len(docs) THEN docs[k].score
    ELSE LET m == MaxScoreFrom(docs, k + 1)
         IN  IF RatGt(docs[k].score, m) THEN docs[k].score ELSE m

\* max(r.score for r in results), results non-empty
MaxScore(docs) == MaxScoreFrom(docs, 1)

\* the native score kept as it is
NormalizedScoreNative(score, max) == score

\* result.score / max if max > 0 else 0
NormalizedScore(score, max) ==
    IF RatGt(max, RatZero) THEN RatDiv(score, max) ELSE RatZero

NormalizeBm25(docs) ==
    IF docs = <<>> THEN <<>>
    ELSE LET max_bm25 == MaxScore(docs)
         IN  [i \in 1..Len(docs) |->
                 [id |-> docs[i].id,
                  score |-> NormalizedScore(docs[i].score, max_bm25)]]

\* the weights taken as equal
CombinedScoreEqualWeights(bm25_norm, vector_norm) ==
    RatAdd(RatMul(Rat(5, 10), bm25_norm), RatMul(Rat(5, 10), vector_norm))

CombinedScore(bm25_norm, vector_norm) ==
    RatAdd(RatMul(Rat(6, 10), bm25_norm), RatMul(Rat(4, 10), vector_norm))

VectorOnlyScore(vector_norm) == RatMul(Rat(4, 10), vector_norm)

\* position of id in the insertion-ordered dict, 0 when absent
IndexOfId(combined, id) ==
    IF \E i \in 1..Len(combined) : combined[i].id = id
    THEN CHOOSE i \in 1..Len(combined) : combined[i].id = id
    ELSE 0

RECURSIVE MergeVector(_, _, _, _)
MergeVector(combined, docs, k, max_vector) ==
    IF k > Len(docs) THEN combined
    ELSE LET normalized_score == NormalizedScore(docs[k].score, max_vector)
             p == IndexOfId(combined, docs[k].id)
             next ==
                 IF p # 0
                 THEN [combined EXCEPT ![p].score =
                          CombinedScore(combined[p].score, normalized_score)]
                 ELSE Append(combined,
                             [id |-> docs[k].id,
                              score |-> VectorOnlyScore(normalized_score)])
         IN  MergeVector(next, docs, k + 1, max_vector)

CombineResults(bm25_docs, vector_docs) ==
    LET combined == NormalizeBm25(bm25_docs)
    IN  IF vector_docs = <<>> THEN combined
        ELSE MergeVector(combined, vector_docs, 1, MaxScore(vector_docs))

\* sorted(..., key=score, reverse=True): stable, equal scores keep their order
RECURSIVE InsertDesc(_, _)
InsertDesc(sorted, x) ==
    IF sorted = <<>> THEN <<x>>
    ELSE IF RatGt(x.score, sorted[Len(sorted)].score)
         THEN Append(InsertDesc(SubSeq(sorted, 1, Len(sorted) - 1), x),
                     sorted[Len(sorted)])
         ELSE Append(sorted, x)

RECURSIVE SortedDesc(_, _)
SortedDesc(s, k) ==
    IF k = 0 THEN <<>> ELSE InsertDesc(SortedDesc(s, k - 1), s[k])

\* s[:n] of Python, n negative included
SliceTo(s, n) ==
    IF n >= 0 THEN SubSeq(s, 1, Min(n, Len(s)))
    ELSE SubSeq(s, 1, Max(Len(s) + n, 0))

FinalResults(bm25_docs, vector_docs, rows) ==
    LET combined == CombineResults(bm25_docs, vector_docs)
    IN  SliceTo(SortedDesc(combined, Len(combined)), rows)

simple_hybrid_search(req, lex, vec) ==
    LET b == bm25_search(lex)
        v == vector_search(vec)
    IN  IF b.raised THEN b
        ELSE IF v.raised THEN Raised(b.calls \o v.calls, v.exc_status)
        ELSE Returned(b.calls \o v.calls,
                      FinalResults(b.results, v.results, req.rows))

\* the bm25 mode routed through the fusion
SearchBranchFusesBm25(search_type) ==
    IF search_type = "bm25" THEN "hybrid"
    ELSE IF search_type = "vector" THEN "vector"
    ELSE IF search_type = "hybrid" THEN "hybrid"
    ELSE "invalid"

SearchBranch(search_type) ==
    IF search_type = "bm25" THEN "bm25"
    ELSE IF search_type = "vector" THEN "vector"
    ELSE IF search_type = "hybrid" THEN "hybrid"
    ELSE "invalid"

\* except Exception as e: raise HTTPException(status_code=500, ...)
SearchExceptStatus(exc_status) == 500

\* what the retrievers can answer, given which of them the branch reaches
LexicalAnswers(req) ==
    LET branch == SearchBranch(req.search_type)
    IN  IF branch = "bm25" THEN SolrSelect(LexScores, req.rows)
        ELSE IF branch = "hybrid" THEN SolrSelect(LexScores, req.rerank_docs)
        ELSE {NotCalled}

VectorAnswers(req, lex) ==
    LET branch == SearchBranch(req.search_type)
    IN  IF ~model THEN {NotCalled}
        ELSE IF branch = "vector" THEN SolrSelect(VecScores, req.rows)
        ELSE IF branch = "hybrid" /\ lex.ok
             THEN SolrSelect(VecScores, req.rerank_docs)
        ELSE {NotCalled}

NoRequest == [search_type |-> "none", rows |-> 0, rerank_docs |-> 0]
NoResponse == [status |-> 0, results |-> <<>>]

\* One request is followed from arrival to response; requests share no state
\* with one another, so a behaviour handles a single one.
search(req) ==
    /\ request = NoRequest
    /\ \E lex \in LexicalAnswers(req) :
         \E vec \in VectorAnswers(req, lex) :
            LET branch == SearchBranch(req.search_type)
                out == IF branch = "bm25" THEN bm25_search(lex)
                       ELSE IF branch = "vector" THEN vector_search(vec)
                       ELSE IF branch = "hybrid"
                            THEN simple_hybrid_search(req, lex, vec)
                       ELSE Raised(<<>>, 400)
            IN  /\ request' = req
                /\ bm25_results' = lex
                /\ vector_results' = vec
                /\ calls' = out.calls
                /\ response' =
                       IF out.raised
                       THEN [status |-> SearchExceptStatus(out.exc_status),
                             results |-> <<>>]
                       ELSE [status |-> 200, results |-> out.results]
                /\ UNCHANGED <<model, index, taskVars, directVars>>

startup_event ==
    /\ ~model
    /\ model' = TRUE
    /\ UNCHANGED <<searchVars, index, taskVars, directVars>>

----------------------------------------------------------------------------
(* Ingestion: URLs, page texts and the document identifier                 *)

AlphaNum ==
    {"a", "b", "c", "d", "e", "f", "g", "h", "i", "j", "k", "l", "m",
     "n", "o", "p", "q", "r", "s", "t", "u", "v", "w", "x", "y", "z",
     "A", "B", "C", "D", "E", "F", "G", "H", "I", "J", "K", "L", "M",
     "N", "O", "P", "Q", "R", "S", "T", "U", "V", "W", "X", "Y", "Z",
     "0", "1", "2", "3", "4", "5", "6", "7", "8", "9"}

\* re.sub(r'[^a-zA-Z0-9]', '_', url) as written in index_document
IndexDocId(url) ==
    [k \in 1..Len(url) |-> IF url[k] \in AlphaNum THEN url[k] ELSE "_"]

\* the batch path using another separator
ScrapeDocIdDash(url) ==
    [k \in 1..Len(url) |-> IF url[k] \in AlphaNum THEN url[k] ELSE "-"]

\* re.sub(r'[^a-zA-Z0-9]', '_', url) as written in scrape_urls_task
ScrapeDocId(url) ==
    [k \in 1..Len(url) |-> IF url[k] \in AlphaNum THEN url[k] ELSE "_"]

UrlSlash == <<"h", "t", "t", "p", ":", "/", "/", "a", "/", "b">>
UrlDot   == <<"h", "t", "t", "p", ":", "/", "/", "a", ".", "b">>
UrlEmpty == <<>>

Urls == {UrlSlash, UrlDot, UrlEmpty}

\* client.get(url) raises for a URL without an http:// or https:// scheme
HasHttpScheme(url) ==
    /\ Len(url) >= 7
    /\ SubSeq(url, 1, 4) = <<"h", "t", "t", "p">>
    /\ \/ SubSeq(url, 5, 7) = <<":", "/", "/">>
       \/ Len(url) >= 8 /\ SubSeq(url, 5, 8) = <<"s", ":", "/", "/">>

UrlLists(n) == UNION { [1..k -> Urls] : k \in 0..n }

\* lists of a fetchable URL and of one that client.get always refuses
BatchUrlLists(n) == UNION { [1..k -> {UrlSlash, UrlEmpty}] : k \in 0..n }

\* A text is run-length encoded: a sequence of runs [ch, n], n >= 1, adjacent
\* runs of different characters; " " stands for any whitespace character.
Run(c, n) == [ch |-> c, n |-> n]

RECURSIVE TextLen(_)
TextLen(text) ==
    IF text = <<>> THEN 0 ELSE text[1].n + TextLen(Tail(text))

MinContentLength == 50
MaxContentLength == 5000
PolitenessDelay  == 2

RECURSIVE StripLeft(_)
StripLeft(text) ==
    IF text # <<>> /\ text[1].ch = " " THEN StripLeft(Tail(text)) ELSE text

RECURSIVE StripRight(_)
StripRight(text) ==
    IF text # <<>> /\ text[Len(text)].ch = " "
    THEN StripRight(SubSeq(text, 1, Len(text) - 1)) ELSE text

\* ' '.join(content.split())
CollapseWhitespace(text) ==
    LET words == StripRight(StripLeft(text))
    IN  [k \in 1..Len(words) |->
            IF words[k].ch = " " THEN Run(" ", 1) ELSE words[k]]

\* text[:n], n >= 0
RECURSIVE Truncate(_, _)
Truncate(text, n) ==
    IF text = <<>> \/ n = 0 THEN <<>>
    ELSE IF text[1].n >= n THEN <<Run(text[1].ch, n)>>
    ELSE <<text[1]>> \o Truncate(Tail(text), n - text[1].n)

\* content = ' '.join(content.split())[:5000]
ExtractContent(text) == Truncate(CollapseWhitespace(text), MaxContentLength)

\* the threshold off by one
InsufficientContentBelow49(content) == TextLen(content) < MinContentLength - 1

\* if len(content) < 50
InsufficientContent(content) == TextLen(content) < MinContentLength

TextShort     == <<Run("x", 49)>>
TextSpaced    == <<Run("x", 24), Run(" ", 5), Run("x", 24)>>
TextThreshold ==
    <<Run(" ", 3), Run("x", 25), Run(" ", 2), Run("x", 24), Run(" ", 1)>>
TextLong      == <<Run("x", 4999), Run(" ", 2), Run("x", 10)>>

\* a fetched page: whether soup.title.string is usable, and soup.get_text()
Pages ==
    [title_ok : {TRUE}, text : {TextShort, TextSpaced, TextThreshold, TextLong}]
    \cup { [title_ok |-> FALSE, text |-> TextThreshold] }

\* the pages whose text is long enough to be indexed
IndexablePages ==
    { p \in Pages : p.title_ok /\ ~InsufficientContent(ExtractContent(p.text)) }

Tasks == {1, 2}

----------------------------------------------------------------------------
(* The index: POST /update with a document list is an upsert by id         *)

SolrUpdate(docs, doc) == { d \in docs : d.id # doc.id } \cup { doc }

NoDoc == [id |-> <<>>, url |-> <<>>, content |-> <<>>]

----------------------------------------------------------------------------
(* /scrape: the background task scrape_urls_task                           *)

Event(e, u, d, n) == [ev |-> e, url |-> u, id |-> d, len |-> n]

Logged(t, events) == log' = [log EXCEPT ![t] = @ \o events]

\* where the task goes once the loop body of source k of n is left
NextSource(k, n) == IF k < n THEN "get" ELSE "commit"

\* `break` in place of `continue`
OnContinueLeavesLoop(k, n) == "commit"

\* `continue` in the loop body
OnContinue(k, n) == NextSource(k, n)

\* the exception leaving the task instead of being caught in the loop
OnExceptionLeavesTask(k, n) == "done"

\* `except Exception` around the loop body
OnException(k, n) == NextSource(k, n)

\* the end of the loop body, after the sleep
OnBodyEnd(k, n) == NextSource(k, n)

Leave(t, target) ==
    /\ pc' = [pc EXCEPT ![t] = target]
    /\ idx' = [idx EXCEPT ![t] = IF target = "get" THEN @ + 1 ELSE @]

scrape_and_index(t, us) ==
    /\ pc[t] = "none"
    /\ urls' = [urls EXCEPT ![t] = us]
    /\ idx' = [idx EXCEPT ![t] = 1]
    /\ pc' = [pc EXCEPT ![t] = IF us = <<>> THEN "commit" ELSE "get"]
    /\ UNCHANGED <<model, searchVars, index, solr_doc, log, directVars>>

\* from `await client.get(url)` up to `await solr_client.post(...)`
ScrapeGet(t, pages) ==
    /\ pc[t] = "get"
    /\ LET url == urls[t][idx[t]]
           n   == Len(urls[t])
           get == Event("get", url, <<>>, 0)
       IN  \/ /\ Logged(t, <<get, Event("failed", url, <<>>, 0)>>)
              /\ Leave(t, OnException(idx[t], n))
              /\ UNCHANGED solr_doc
           \/ /\ HasHttpScheme(url)
              /\ \E page \in pages :
                   LET content == ExtractContent(page.text)
                       text == Event("content", url, <<>>, TextLen(content))
                       encode == Event("encode", url, <<>>, TextLen(content))
                   IN  IF ~page.title_ok
                       THEN /\ Logged(t, <<get, Event("failed", url, <<>>, 0)>>)
                            /\ Leave(t, OnException(idx[t], n))
                            /\ UNCHANGED solr_doc
                       ELSE IF InsufficientContent(content)
                       THEN /\ Logged(t, <<get, text,
                                           Event("insufficient", url, <<>>, 0)>>)
                            /\ Leave(t, OnContinue(idx[t], n))
                            /\ UNCHANGED solr_doc
                       ELSE IF ~model
                       THEN /\ Logged(t, <<get, text,
                                           Event("no_model", url, <<>>, 0)>>)
                            /\ Leave(t, OnContinue(idx[t], n))
                            /\ UNCHANGED solr_doc
                       ELSE \/ /\ Logged(t, <<get, text, encode,
                                              Event("failed", url, <<>>, 0)>>)
                               /\ Leave(t, OnException(idx[t], n))
                               /\ UNCHANGED solr_doc
                            \/ /\ Logged(t, <<get, text, encode>>)
                               /\ solr_doc' = [solr_doc EXCEPT ![t] =
                                      [id |-> ScrapeDocId(url), url |-> url,
                                       content |-> content]]
                               /\ Leave(t, "post")
    /\ UNCHANGED <<model, searchVars, index, urls, directVars>>

\* `await solr_client.post(.../update, json=[solr_doc])`: the call raises, or
\* a response comes back (its status is not inspected) with the document
\* stored or refused
ScrapePost(t) ==
    /\ pc[t] = "post"
    /\ LET url == urls[t][idx[t]]
           n   == Len(urls[t])
           post == Event("post", url, solr_doc[t].id, TextLen(solr_doc[t].content))
       IN  \/ /\ Logged(t, <<post, Event("failed", url, <<>>, 0)>>)
              /\ Leave(t, OnException(idx[t], n))
              /\ UNCHANGED index
           \/ /\ Logged(t, <<post, Event("indexed", url, <<>>, 0)>>)
              /\ Leave(t, "sleep")
              /\ \/ index' = SolrUpdate(index, solr_doc[t])
                 \/ UNCHANGED index
    /\ UNCHANGED <<model, searchVars, urls, solr_doc, directVars>>

\* `await asyncio.sleep(2)`
ScrapeSleep(t) ==
    /\ pc[t] = "sleep"
    /\ Logged(t, <<Event("sleep", urls[t][idx[t]], <<>>, PolitenessDelay)>>)
    /\ Leave(t, OnBodyEnd(idx[t], Len(urls[t])))
    /\ UNCHANGED <<model, searchVars, index, urls, solr_doc, directVars>>

\* the final commit, its own failure only logged
ScrapeCommit(t) ==
    /\ pc[t] = "commit"
    /\ \/ Logged(t, <<Event("commit", <<>>, <<>>, 0)>>)
       \/ Logged(t, <<Event("commit", <<>>, <<>>, 0),
                      Event("commit_failed", <<>>, <<>>, 0)>>)
    /\ pc' = [pc EXCEPT ![t] = "done"]
    /\ UNCHANGED <<model, searchVars, index, urls, idx, solr_doc, directVars>>

----------------------------------------------------------------------------
(* /index: direct submission of one document                               *)

DirectTexts == {TextShort, TextThreshold}

IndexDocuments == [url : Urls, content : DirectTexts]

\* except Exception as e: raise HTTPException(status_code=500, ...)
IndexExceptStatus(exc_status) == 500

index_document(doc) ==
    LET doc_id == IndexDocId(doc.url)
        new == [id |-> doc_id, url |-> doc.url, content |-> doc.content]
        failure(st) == [status |-> IndexExceptStatus(st), id |-> <<>>]
    IN  /\ \/ /\ ~model                     \* HTTPException(503) raised
              /\ index_response' = failure(503)
              /\ UNCHANGED index
           \/ /\ model                      \* encode or the update call fails
              /\ index_response' = failure(0)
              /\ UNCHANGED index
           \/ /\ model                      \* stored, then the commit call raises
              /\ index_response' = failure(0)
              /\ index' = SolrUpdate(index, new)
           \/ /\ model
              /\ index_response' = [status |-> 200, id |-> doc_id]
              /\ index' = SolrUpdate(index, new)
        /\ UNCHANGED <<model, searchVars, taskVars>>

----------------------------------------------------------------------------
(* Specifications                                                          *)

vars == <<model, request, bm25_results, vector_results, calls, response,
          index, pc, urls, idx, solr_doc, log, index_response>>

Init ==
    /\ model = FALSE
    /\ request = NoRequest
    /\ bm25_results = NotCalled
    /\ vector_results = NotCalled
    /\ calls = <<>>
    /\ response = NoResponse
    /\ index = {}
    /\ pc = [t \in Tasks |-> "none"]
    /\ urls = [t \in Tasks |-> <<>>]
    /\ idx = [t \in Tasks |-> 0]
    /\ solr_doc = [t \in Tasks |-> NoDoc]
    /\ log = [t \in Tasks |-> <<>>]
    /\ index_response = [status |-> 0, id |-> <<>>]

\* one search request
NextSearch ==
    \/ startup_event
    \/ \E req \in Requests : search(req)

SpecSearch == Init /\ [][NextSearch]_vars

\* one batch ingestion, every page and every outcome
NextBatch ==
    \/ startup_event
    \/ \E us \in BatchUrlLists(MaxUrls) : scrape_and_index(1, us)
    \/ ScrapeGet(1, Pages)
    \/ ScrapePost(1)
    \/ ScrapeSleep(1)
    \/ ScrapeCommit(1)

SpecBatch == Init /\ [][NextBatch]_vars

\* direct submissions and two batch ingestions running concurrently
NextIngest ==
    \/ startup_event
    \/ \E doc \in IndexDocuments : index_document(doc)
    \/ \E t \in Tasks : \E us \in UrlLists(1) : scrape_and_index(t, us)
    \/ \E t \in Tasks : ScrapeGet(t, IndexablePages)
    \/ \E t \in Tasks : ScrapePost(t)
    \/ \E t \in Tasks : ScrapeSleep(t)
    \/ \E t \in Tasks : ScrapeCommit(t)

SpecIngest == Init /\ [][NextIngest]_vars

----------------------------------------------------------------------------
(* Claims about /search, checked under SpecSearch                          *)

IdsOf(docs) == { docs[k].id : k \in 1..Len(docs) }

ScoreOf(docs, id) == docs[CHOOSE k \in 1..Len(docs) : docs[k].id = id].score

\* the reference normalisation: the score divided by the largest score of
\* its own result set, 0 when that largest score is 0
RefNormalized(docs, id) ==
    LET top == CHOOSE s \in { docs[k].score : k \in 1..Len(docs) } :
                   \A k \in 1..Len(docs) : RatGe(s, docs[k].score)
    IN  IF top = RatZero THEN RatZero
        ELSE <<ScoreOf(docs, id)[1] * top[2], ScoreOf(docs, id)[2] * top[1]>>

\* a * x + b * y in tenths, as an unreduced fraction
RefWeighted(a, x, b, y) ==
    <<a * x[1] * y[2] + b * y[1] * x[2], 10 * x[2] * y[2]>>

RefFused(lex, vec, id) ==
    IF id \in IdsOf(lex) /\ id \in IdsOf(vec)
    THEN RefWeighted(6, RefNormalized(lex, id), 4, RefNormalized(vec, id))
    ELSE IF id \in IdsOf(vec)
    THEN RefWeighted(0, RatZero, 4, RefNormalized(vec, id))
    ELSE RefWeighted(10, RefNormalized(lex, id), 0, RatZero)

SameValue(a, b) == a[1] * b[2] = b[1] * a[2]

HybridAnswered ==
    /\ request.search_type = "hybrid"
    /\ response.status = 200

ExampleLexical == <<[id |-> "A", score |-> Rat(10, 1)],
                    [id |-> "B", score |-> Rat(5, 1)]>>
ExampleVector  == <<[id |-> "B", score |-> Rat(9, 10)],
                    [id |-> "C", score |-> Rat(2, 10)]>>

ExampleAnswered ==
    /\ HybridAnswered
    /\ request.rows >= 3
    /\ bm25_results.docs = ExampleLexical
    /\ vector_results.docs = ExampleVector

\* C1: every document of a hybrid answer carries the reference fused score
\* (0.6*normLexical + 0.4*normVector in both sets, 0.4*normVector when only
\* in the vector set, 1.0*normLexical when only in the lexical set, each
\* score normalised by the maximum of its own set, 0 when that maximum is
\* 0); lexical [10, 5] for A, B with vector [0.9, 0.2] for B, C gives
\* A = 1.0, B = 0.7, C = 4/45 (0.089 to three decimals), ranked A, B, C.
C1_FusedScoreIsReference ==
    /\ HybridAnswered =>
         \A k \in 1..Len(response.results) :
            LET r == response.results[k]
            IN  /\ r.id \in IdsOf(bm25_results.docs) \cup IdsOf(vector_results.docs)
                /\ SameValue(r.score,
                             RefFused(bm25_results.docs, vector_results.docs, r.id))
    /\ ExampleAnswered =>
         /\ Len(response.results) = 3
         /\ response.results[1].id = "A"
         /\ SameValue(response.results[1].score, <<1, 1>>)
         /\ response.results[2].id = "B"
         /\ SameValue(response.results[2].score, <<7, 10>>)
         /\ response.results[3].id = "C"
         /\ response.results[3].score[1] * 10000 >= 885 * response.results[3].score[2]
         /\ response.results[3].score[1] * 10000 < 895 * response.results[3].score[2]

C1_Witness == ExampleAnswered /\ Len(response.results) = 3

KnownSearchTypes == {"bm25", "vector", "hybrid"}

Handled == request # NoRequest

\* C2: a request whose mode is none of bm25, vector, hybrid is answered
\* with a 4xx status and no retriever call is made for it.
C2_UnknownModeIsClientError ==
    (Handled /\ request.search_type \notin KnownSearchTypes) =>
        /\ response.status \in 400..499
        /\ calls = <<>>

\* C3: while the embedder is not loaded, a vector search, a hybrid search
\* and a direct index submission each end with status 503.
C3_EmbedderDownIsUnavailable ==
    /\ (Handled /\ ~model /\ request.search_type \in {"vector", "hybrid"}) =>
           response.status = 503
    /\ (~model /\ index_response.status # 0) => index_response.status = 503

Called(name) == \E k \in 1..Len(calls) : calls[k] = name

\* C9: a bm25 request calls neither the embedder nor the vector retriever
\* and a vector request never calls the lexical retriever, whether the
\* request succeeds or fails.
C9_PureModeCallsOneRetriever ==
    /\ request.search_type = "bm25" =>
           ~Called("encode") /\ ~Called("knn_select")
    /\ request.search_type = "vector" => ~Called("bm25_select")

C9_Witness ==
    /\ request.search_type = "bm25"
    /\ calls = <<"bm25_select">>
    /\ response.status = 200
    /\ Len(response.results) = 2

\* C10: the result list of a hybrid answer has at most `rows` entries, for
\* every integer `rows` the request accepts.
C10_AtMostRows ==
    HybridAnswered => Len(response.results) <= request.rows

----------------------------------------------------------------------------
(* Claims about one batch ingestion, checked under SpecBatch               *)

EventsOf(t, e) == { k \in 1..Len(log[t]) : log[t][k].ev = e }

RECURSIVE UrlsFetched(_)
UrlsFetched(events) ==
    IF events = <<>> THEN <<>>
    ELSE IF events[1].ev = "get"
         THEN <<events[1].url>> \o UrlsFetched(Tail(events))
         ELSE UrlsFetched(Tail(events))

Started(t) == pc[t] # "none"

\* C4: a batch issues exactly one commit call, whatever happened to each
\* source and also when the batch is empty, and issues it after every
\* source has been attempted and after every index write of the batch.
C4_OneCommitAfterAllSources ==
    \A t \in Tasks :
        /\ Cardinality(EventsOf(t, "commit")) <= 1
        /\ pc[t] = "done" => Cardinality(EventsOf(t, "commit")) = 1
        /\ \A c \in EventsOf(t, "commit") :
              /\ UrlsFetched(SubSeq(log[t], 1, c)) = urls[t]
              /\ \A k \in EventsOf(t, "get") \cup EventsOf(t, "post") : k < c

\* three URLs, the second fetch fails, the first and third are indexed
C4_Witness ==
    /\ pc[1] = "done"
    /\ urls[1] = <<UrlSlash, UrlEmpty, UrlSlash>>
    /\ Cardinality(EventsOf(1, "post")) = 2
    /\ \E k \in EventsOf(1, "failed") :
          /\ log[1][k - 1].ev = "get"
          /\ log[1][k].url = UrlEmpty
    /\ log[1][Len(log[1])].ev = "commit"

\* C5: a failed or skipped source never ends the batch: the sources are
\* fetched once each in list order, all of them by the time of the commit,
\* and a source that was fetched, extracted and embedded without failure
\* gets its index write.
C5_EverySourceAttempted ==
    \A t \in Tasks :
        /\ Len(UrlsFetched(log[t])) <= Len(urls[t])
        /\ UrlsFetched(log[t]) = SubSeq(urls[t], 1, Len(UrlsFetched(log[t])))
        /\ pc[t] \in {"commit", "done"} => UrlsFetched(log[t]) = urls[t]
        /\ Started(t) /\ pc[t] = "get" => Len(UrlsFetched(log[t])) = idx[t] - 1
        /\ \A k \in EventsOf(t, "encode") :
              IF k = Len(log[t]) THEN pc[t] = "post"
              ELSE log[t][k + 1].ev \in {"failed", "post"}

C5_Witness ==
    /\ pc[1] = "done"
    /\ Len(urls[1]) = 2
    /\ EventsOf(1, "insufficient") = {3}
    /\ \E k \in EventsOf(1, "post") : log[1][k].url = urls[1][2]

\* C6: between the fetch of a source and the fetch of the next source of
\* the same batch the politeness delay is applied.
C6_DelayBetweenFetches ==
    \A t \in Tasks :
        \A j, k \in EventsOf(t, "get") :
            j < k => \E m \in EventsOf(t, "sleep") : j < m /\ m < k

\* C8: a source whose text, whitespace collapsed and truncated, is shorter
\* than 50 characters is skipped: the embedder is not invoked for it, no
\* index write is made for it, and no document below the threshold is in
\* the index.
C8_ShortTextSkipped ==
    /\ \A t \in Tasks :
          /\ \A k \in EventsOf(t, "content") :
                log[t][k].len < MinContentLength =>
                    /\ k < Len(log[t])
                    /\ log[t][k + 1].ev = "insufficient"
                    /\ k + 2 <= Len(log[t]) =>
                           log[t][k + 2].ev \in {"get", "commit"}
          /\ \A k \in EventsOf(t, "encode") \cup EventsOf(t, "post") :
                log[t][k].len >= MinContentLength
    /\ \A d \in index : TextLen(d.content) >= MinContentLength

C8_Witness ==
    /\ pc[1] = "done"
    /\ \E k \in EventsOf(1, "content") : log[1][k].len = MinContentLength - 1
    /\ \E d \in index : TextLen(d.content) = MinContentLength

----------------------------------------------------------------------------
(* Claims about concurrent ingestion, checked under SpecIngest             *)

DocsFor(u) == { d \in index : d.url = u }

\* every identifier computed so far for URL u, on either path
IdsComputedFor(u) ==
    { d.id : d \in DocsFor(u) }
    \cup UNION { { log[t][k].id : k \in { j \in 1..Len(log[t]) :
                              log[t][j].ev = "post" /\ log[t][j].url = u } }
                  : t \in Tasks }
    \cup { solr_doc[t].id : t \in { r \in Tasks :
                              solr_doc[r] # NoDoc /\ solr_doc[r].url = u } }

C7_OneDocumentPerUrl ==
    \A u \in Urls :
        /\ Cardinality(DocsFor(u)) <= 1
        /\ Cardinality(IdsComputedFor(u)) <= 1

\* a batch task stores its document in this step
BatchStores(t) == pc[t] = "post" /\ pc'[t] = "sleep" /\ index' # index

C7_WritesReplace ==
    /\ \A t \in Tasks :
          BatchStores(t) => { d \in index' : d.url = solr_doc[t].url } = {solr_doc[t]}
    /\ \A d \in index' \ index :
          \/ \E t \in Tasks : BatchStores(t) /\ d = solr_doc[t]
          \/ /\ UNCHANGED taskVars
             /\ d.content \in DirectTexts
             /\ { e \in index' : e.url = d.url } = {d}
    /\ \A u \in Urls :
          DocsFor(u) # {} =>
              \/ { d \in index' : d.url = u } # {}
              \/ \E d \in index' \ index :
                    d.url # u /\ d.id \in { e.id : e \in DocsFor(u) }

\* C7: however direct submissions and two concurrent batches of the same
\* URL with different contents interleave, the identifier computed for the
\* URL is the same each time and on both paths, and the index holds one
\* document for it, carrying the content of one of the writes: a stored
\* write leaves exactly its own document for the URL, and that document
\* stays until another write replaces it.
C7_SameUrlOneDocument ==
    [](C7_OneDocumentPerUrl) /\ [][C7_WritesReplace]_vars

C7_Witness ==
    /\ \E j \in 1..Len(log[1]), k \in 1..Len(log[2]) :
          /\ log[1][j].ev = "post" /\ log[1][j].url = UrlSlash
          /\ log[2][k].ev = "post" /\ log[2][k].url = UrlSlash
          /\ log[1][j].len # log[2][k].len
    /\ index_response = [status |-> 200, id |-> IndexDocId(UrlSlash)]
    /\ Cardinality(DocsFor(UrlSlash)) = 1
    /\ pc[1] = "done" /\ pc[2] = "done"

----------------------------------------------------------------------------
(* Scale independence of the fusion, checked under SpecSearch              *)

\* every score of a result list multiplied by the rational c
Scaled(docs, c) ==
    [k \in 1..Len(docs) |->
        [id |-> docs[k].id, score |-> RatMul(c, docs[k].score)]]

ScaleFactors == {Rat(1, 2), Rat(3, 1), Rat(7, 10)}

BothSetsNonEmpty ==
    /\ HybridAnswered
    /\ bm25_results.docs # <<>>
    /\ vector_results.docs # <<>>

----------------------------------------------------------------------------
(* The identifier of indexed documents, checked under SpecIngest           *)

\* C12: every document written to the index, by a direct submission or by
\* a batch and for every URL the request accepts, has a non-empty
\* identifier, which is its URL with each non-alphanumeric character
\* replaced by "_".
C12_IdentifierNonEmptyFromUrl ==
    \A d \in index :
        /\ Len(d.id) > 0
        /\ Len(d.id) = Len(d.url)
        /\ \A k \in 1..Len(d.url) :
              d.id[k] = IF d.url[k] \in AlphaNum THEN d.url[k] ELSE "_"

====
